---- MODULE Spec2Model ----
(***************************************************************************)
(* Module-and-job orchestration layer of the backend: the JobQueue         *)
(* scheduler (JobQueue.ts), the Job lifecycle (Job.ts) and the module      *)
(* statuses the scheduler reads.                                           *)
(*                                                                         *)
(* JavaScript runs one handler to completion before the next one starts,   *)
(* so every action below is one synchronous run of a handler.  The only    *)
(* place where foreign code runs in the middle of a handler is the call    *)
(* job.execute() inside the dispatch loop of JobQueue._process: the        *)
(* synchronous prefix of the job's _validate runs there and may submit     *)
(* further jobs.  While that window is open processLock is TRUE and only   *)
(* queueJob and the continuation of the loop are enabled.                  *)
(***************************************************************************)
EXTENDS Integers, Sequences, FiniteSets, TLC

\* ------------------------------------------------------------------ bounds
\* number of jobs ever constructed in one behaviour of the scheduler (Spec)
MaxJobs == 3
\* number of jobs ever constructed in one behaviour of the job lifecycle (SpecJob)
MaxLifecycleJobs == 1
\* number of jobs ever constructed in one behaviour under fairness (SpecLive)
MaxLiveJobs == 2
\* JobQueue._concurrency, 50 in the constructor, scaled down
Concurrency == 2
\* number of names a module declares as its dependencies
MaxDeps == 2
\* number of jobs ever constructed in one behaviour of the module manager (SpecManager)
MaxManagerJobs == 1
\* number of submissions queueJob rejects in one behaviour (SpecJob)
MaxRejected == 1
\* number of names a module declares as its dependencies when the modules are loaded in
\* any status (SpecStart)
MaxStartDeps == 1
\* number of loaded modules that are not UNINITIALIZED when startup begins (SpecStart)
MaxPreset == 1

\* --------------------------------------------------------------- constants
\* Job._priority when options give none
DefaultPriority == 1

Modules == {"data", "events"}

ModuleStatus ==
    {"UNINITIALIZED", "STARTING", "STARTED", "ERROR", "STOPPING", "STOPPED", "DISABLED"}

\* statuses a module is set to while the scheduler is observed
SetStatusInputs == {"STARTED", "ERROR"}

JobStatus == {"QUEUED", "ACTIVE", "PAUSED", "COMPLETED"}

\* options.priority as given by a caller: <<>> is an absent field, <<p>> the number p
NoPriority == <<>>
PriorityInputs == {NoPriority, <<0>>, <<2>>}

\* priorities given to the single job of the job lifecycle
LifecyclePriorityInputs == PriorityInputs \cup {<<-1>>}

AlreadyExecuted == "Job has already been executed."
ModuleNotFound == "Module not found."
\* what getJob fails with for a name that is not a registered job of the module
JobNotFound == "Job not found."
CannotRunJobs == "Module can not currently run jobs."

VARIABLES
    isPaused,       \* JobQueue._isPaused
    jobs,           \* JobQueue._jobs: the Job objects, jobs[k] has uuid k
    queue,          \* JobQueue._queue: uuids
    active,         \* JobQueue._active: uuids
    processLock,    \* JobQueue._processLock
    callbacks,      \* JobQueue._callbacks: the uuids that have an entry
    loopI,          \* the index i of the for loop of _process while it is suspended in job.execute()
    chain,          \* per uuid: the promise chain execute().then().catch().finally() built by _process
    calls,          \* per uuid: how often the caller's resolve and reject were invoked
    moduleStatus,   \* per module: BaseModule status
    lastExecute,    \* outcome of the latest execute() called from outside the scheduler
    dispatches,     \* history, per uuid: how often _process moved the job to _active
    passQueue,      \* history: the uuids _queue held when the running pass of _process began
    deps,           \* per loaded module: what getDependentModules returns
    manager,        \* ModuleManager: where startup/shutdown stand, and the calls they made
    rejected        \* history: the submissions queueJob has thrown on, with the error

vars ==
    <<isPaused, jobs, queue, active, processLock, callbacks, loopI, chain, calls,
      moduleStatus, lastExecute, dispatches, passQueue, deps, manager, rejected>>

\* what only ModuleManager.startup and shutdown write (with moduleStatus)
managerVars == <<deps, manager>>

\* ----------------------------------------------------------------- helpers
RemoveAt(s, k) == SubSeq(s, 1, k - 1) \o SubSeq(s, k + 1, Len(s))

\* Array.prototype.indexOf, 1-based, 0 when absent
IndexOf(s, x) ==
    IF \E k \in 1..Len(s) : s[k] = x
    THEN CHOOSE k \in 1..Len(s) : s[k] = x /\ \A l \in 1..(k - 1) : s[l] # x
    ELSE 0

Range(s) == {s[k] : k \in 1..Len(s)}

\* BaseModule.canRunJobs
CanRunJobs(m) == moduleStatus[m] = "STARTED"

\* ModuleManager._modules is set: startup has loaded the modules
ModulesLoaded == manager.pc # "idle"

\* ---------------------------------------------------------------- Job.ts
\* new Job(module, payload, options): constructor
NewJob(m, p, ref) ==
    [module      |-> m,
     priority    |-> IF p # NoPriority /\ p[1] # 0 THEN p[1] ELSE DefaultPriority,
     callbackRef |-> ref,
     status      |-> "QUEUED",
     startedAt   |-> 0,
     completedAt |-> 0,
     clock       |-> 0,
     phase       |-> "new",
     error       |-> "none",
     runs        |-> 0,
     logs        |-> 0,
     outcomes    |-> 0,
     durations   |-> 0,
     totals      |-> 0,
     published   |-> <<>>]

\* performance.now() as read by one job: each reading is later than the job's previous one
Now(job) == job.clock + 1

\* Job.execute up to its first await: the entry checks, ACTIVE, startedAt, the call of _validate
ExecuteEntryStarted(job) ==
    [job EXCEPT !.status = "ACTIVE", !.startedAt = Now(job), !.clock = Now(job),
                !.phase = "validate", !.runs = @ + 1]

\* ExecuteEntryError with the test of _startedAt in line 192 left out
ExecuteEntryErrorNoStartedCheck(job) ==
    IF ~CanRunJobs(job.module) THEN CannotRunJobs ELSE "none"

ExecuteEntryError(job) ==
    IF job.startedAt # 0 THEN AlreadyExecuted
    ELSE IF ~CanRunJobs(job.module) THEN CannotRunJobs
    ELSE "none"

\* ExecuteEntry with _startedAt stamped before the entry checks
ExecuteEntryStampsFirst(job) ==
    IF ExecuteEntryError(job) # "none"
    THEN [job EXCEPT !.startedAt = Now(job), !.clock = Now(job)]
    ELSE ExecuteEntryStarted(job)

\* ExecuteEntry with _setStatus(ACTIVE) placed before the canRunJobs test of line 194
ExecuteEntryActivatesFirst(job) ==
    IF ExecuteEntryError(job) = CannotRunJobs THEN [job EXCEPT !.status = "ACTIVE"]
    ELSE IF ExecuteEntryError(job) # "none" THEN job
    ELSE ExecuteEntryStarted(job)

\* lines 192-198 of Job.execute: a failed entry check throws before anything is written
ExecuteEntry(job) ==
    IF ExecuteEntryError(job) # "none" THEN job ELSE ExecuteEntryStarted(job)

\* Finally with the _setStatus(COMPLETED) of line 263 left out
FinallyKeepsStatus(job) ==
    [job EXCEPT !.completedAt = Now(job), !.clock = Now(job),
                !.totals = @ + 1,
                !.durations = IF job.startedAt # 0 THEN @ + 1 ELSE @]

\* the finally block of Job.execute: completedAt, the TOTAL and DURATION statistics,
\* COMPLETED
Finally(job) ==
    [job EXCEPT !.completedAt = Now(job), !.clock = Now(job), !.status = "COMPLETED",
                !.totals = @ + 1,
                !.durations = IF job.startedAt # 0 THEN @ + 1 ELSE @]

\* the end of the try block: log, the SUCCESSFUL statistic, return data
Return(job) ==
    Finally([job EXCEPT !.phase = "returned", !.logs = @ + 1, !.outcomes = @ + 1])

\* Throw with the catch block ending without throw error: execute() fulfils
ThrowSwallowed(job) ==
    Finally([job EXCEPT !.phase = "returned", !.error = "none",
                        !.logs = @ + 1, !.outcomes = @ + 1])

\* the end of the catch block: log, the FAILED statistic, throw error; the error leaves
\* the job as the rejection of the promise execute() returned
Throw(job) ==
    Finally([job EXCEPT !.phase = "thrown", !.error = "none",
                        !.logs = @ + 1, !.outcomes = @ + 1])

\* the await of line 237 throws: the publish error leaves the catch block at once,
\* lines 245-253 are not run, the finally block is
ThrowFromCatch(job) == Finally([job EXCEPT !.phase = "thrown", !.error = "none"])

\* EventsModule.publish of the job's result has settled: the message is on the bus or not
Published(job, status, ok) ==
    [job EXCEPT !.published = Append(@, [status |-> status, ok |-> ok])]

\* the catch block up to its await: with a callbackRef the error is published first
Catch(job, err) ==
    IF job.callbackRef
    THEN [job EXCEPT !.phase = "catchPublish", !.error = err]
    ELSE Throw(job)

\* Executed with the test of callbackRef in line 210 left out
ExecutedAlwaysPublishes(job) == [job EXCEPT !.phase = "publish"]

\* the try block after _execute has returned: with a callbackRef the result is published first
Executed(job) ==
    IF job.callbackRef THEN [job EXCEPT !.phase = "publish"] ELSE Return(job)

\* Settle with a rejection of _validate ignored
SettleIgnoresValidation(job, ok) ==
    CASE job.phase = "validate" -> [job EXCEPT !.phase = "authorize"]
      [] job.phase = "authorize" ->
            IF ok THEN [job EXCEPT !.phase = "execute"] ELSE Catch(job, "authorize")
      [] job.phase = "execute" ->
            IF ok THEN Executed(job) ELSE Catch(job, "execute")
      [] job.phase = "publish" ->
            IF ok THEN Return(Published(job, "success", TRUE))
            ELSE Catch(Published(job, "success", FALSE), "publish")
      [] job.phase = "catchPublish" ->
            IF ok THEN Throw(Published(job, "error", TRUE))
            ELSE ThrowFromCatch(Published(job, "error", FALSE))
      [] OTHER -> job

\* the continuation of Job.execute after the await of the phase the job is suspended in
Settle(job, ok) ==
    CASE job.phase = "validate" ->
            IF ok THEN [job EXCEPT !.phase = "authorize"] ELSE Catch(job, "validate")
      [] job.phase = "authorize" ->
            IF ok THEN [job EXCEPT !.phase = "execute"] ELSE Catch(job, "authorize")
      [] job.phase = "execute" ->
            IF ok THEN Executed(job) ELSE Catch(job, "execute")
      [] job.phase = "publish" ->
            IF ok THEN Return(Published(job, "success", TRUE))
            ELSE Catch(Published(job, "success", FALSE), "publish")
      [] job.phase = "catchPublish" ->
            IF ok THEN Throw(Published(job, "error", TRUE))
            ELSE ThrowFromCatch(Published(job, "error", FALSE))
      [] OTHER -> job

Suspended(job) == job.phase \in {"validate", "authorize", "execute", "publish", "catchPublish"}

\* the promise returned by execute() once the job has left its last phase
Settled(job) ==
    IF job.phase = "returned" THEN "fulfilled"
    ELSE IF job.phase = "thrown" THEN "rejected"
    ELSE "pending"

\* ------------------------------------------------------------ JobQueue.ts
\* Array.prototype.sort with (a, b) => a.getPriority() - b.getPriority(): stable
RECURSIVE InsertByPriority(_, _, _)
InsertByPriority(x, s, J) ==
    IF s = <<>> THEN <<x>>
    ELSE IF J[Head(s)].priority <= J[x].priority
         THEN <<Head(s)>> \o InsertByPriority(x, Tail(s), J)
         ELSE <<x>> \o s

RECURSIVE SortByPriority(_, _)
SortByPriority(q, J) ==
    IF q = <<>> THEN <<>>
    ELSE InsertByPriority(q[Len(q)], SortByPriority(SubSeq(q, 1, Len(q) - 1), J), J)

\* the part of the state a dispatch pass works on
World ==
    [queue |-> queue, active |-> active, jobs |-> jobs, chain |-> chain,
     processLock |-> processLock, loopI |-> loopI,
     dispatches |-> dispatches, passQueue |-> passQueue]

Commit(w) ==
    /\ queue' = w.queue
    /\ active' = w.active
    /\ jobs' = w.jobs
    /\ chain' = w.chain
    /\ processLock' = w.processLock
    /\ loopI' = w.loopI
    /\ dispatches' = w.dispatches
    /\ passQueue' = w.passQueue

\* Dispatch with the splice of line 156 left out
DispatchNoSplice(w, i) ==
    LET job == w.queue[i + 1]
        err == ExecuteEntryError(w.jobs[job])
    IN  [w EXCEPT !.active = Append(w.active, job),
                  !.jobs[job] = ExecuteEntry(w.jobs[job]),
                  !.chain[job] = IF err = "none" THEN "pending" ELSE "rejected",
                  !.loopI = i,
                  !.dispatches[job] = @ + 1]

\* Dispatch with the push to the active set (line 157) left out
DispatchNoPush(w, i) ==
    LET job == w.queue[i + 1]
        err == ExecuteEntryError(w.jobs[job])
    IN  [w EXCEPT !.queue = RemoveAt(w.queue, IndexOf(w.queue, job)),
                  !.jobs[job] = ExecuteEntry(w.jobs[job]),
                  !.chain[job] = IF err = "none" THEN "pending" ELSE "rejected",
                  !.loopI = i,
                  !.dispatches[job] = @ + 1]

\* lines 155-175 of _process for the job at index i (0-based) of the queue: splice, push,
\* job.execute() up to its first await, with the .then/.catch/.finally chain attached
Dispatch(w, i) ==
    LET job == w.queue[i + 1]
        err == ExecuteEntryError(w.jobs[job])
    IN  [w EXCEPT !.queue = RemoveAt(w.queue, IndexOf(w.queue, job)),
                  !.active = Append(w.active, job),
                  !.jobs[job] = ExecuteEntry(w.jobs[job]),
                  !.chain[job] = IF err = "none" THEN "pending" ELSE "rejected",
                  !.loopI = i,
                  !.dispatches[job] = @ + 1]

\* line 181 of _process: the lock is released
Unlock(w) == [w EXCEPT !.processLock = FALSE, !.loopI = 0, !.passQueue = {}]

\* Loop with the canRunJobs test of line 153 left out
LoopNoCheck(w, i) ==
    IF ~(i < Len(w.queue)) THEN Unlock(w) ELSE Dispatch(w, i)

RECURSIVE Loop(_, _)

\* Loop with the canRunJobs test of line 153 made on the first job of the queue
\* instead of the job at index i
LoopChecksHead(w, i) ==
    IF ~(i < Len(w.queue)) THEN Unlock(w)
    ELSE IF ~CanRunJobs(w.jobs[w.queue[1]].module) THEN Loop(w, i + 1)
    ELSE Dispatch(w, i)

\* the for loop of _process from index i (0-based) up to the next job.execute() call,
\* or to the end of the loop and the release of the lock
Loop(w, i) ==
    IF ~(i < Len(w.queue)) THEN Unlock(w)
    ELSE IF ~CanRunJobs(w.jobs[w.queue[i + 1]].module) THEN Loop(w, i + 1)
    ELSE Dispatch(w, i)

\* Process with the test of _active.length against _concurrency left out of line 134
ProcessNoBound(w, paused) ==
    IF w.processLock THEN w
    ELSE IF paused \/ Len(w.queue) = 0 THEN w
    ELSE Loop([w EXCEPT !.processLock = TRUE,
                        !.queue = SortByPriority(w.queue, w.jobs),
                        !.passQueue = Range(w.queue)], 0)

\* Process with the test of _isPaused left out of line 133
ProcessIgnoresPause(w, paused) ==
    IF w.processLock THEN w
    ELSE IF Len(w.active) >= Concurrency \/ Len(w.queue) = 0 THEN w
    ELSE Loop([w EXCEPT !.processLock = TRUE,
                        !.queue = SortByPriority(w.queue, w.jobs),
                        !.passQueue = Range(w.queue)], 0)

\* Process with > in place of >= in the test of line 134
ProcessOffByOne(w, paused) ==
    IF w.processLock THEN w
    ELSE IF paused \/ Len(w.active) > Concurrency \/ Len(w.queue) = 0 THEN w
    ELSE Loop([w EXCEPT !.processLock = TRUE,
                        !.queue = SortByPriority(w.queue, w.jobs),
                        !.passQueue = Range(w.queue)], 0)

\* Process with the test of _processLock (line 130) left out
ProcessNoLock(w, paused) ==
    IF paused \/ Len(w.active) >= Concurrency \/ Len(w.queue) = 0 THEN w
    ELSE Loop([w EXCEPT !.processLock = TRUE,
                        !.queue = SortByPriority(w.queue, w.jobs),
                        !.passQueue = Range(w.queue)], 0)

\* JobQueue._process, entered with the given value of _isPaused
Process(w, paused) ==
    IF w.processLock THEN w
    ELSE IF paused \/ Len(w.active) >= Concurrency \/ Len(w.queue) = 0 THEN w
    ELSE Loop([w EXCEPT !.processLock = TRUE,
                        !.queue = SortByPriority(w.queue, w.jobs),
                        !.passQueue = Range(w.queue)], 0)

\* line 177 and the rest of the loop, once job.execute() has returned its promise
AfterExecute(w) ==
    IF Len(w.active) >= Concurrency
    THEN Unlock(w)
    ELSE Loop(w, w.loopI + 1)

\* ------------------------------------------------------- ModuleManager.ts
\* the names of this._modules in the order of Object.values: five in _loadModules,
\* scaled down
LoadOrder == <<"api", "data", "events">>

Loaded == Range(LoadOrder)

\* a name getModule has no module for
Missing == "missing"

DepNames == Loaded \cup {Missing}

\* what a module may declare: up to MaxDeps names without repetition
DepLists ==
    {d \in UNION {[1..n -> DepNames] : n \in 0..MaxDeps} :
        \A k, l \in DOMAIN d : k # l => d[k] # d[l]}

DepsInputs == [Loaded -> DepLists]

NotFound == "Dependent module not found"
FailedToStart == "Dependent module failed to start"
Unavailable == "Dependent module is unavailable"
\* what the engine throws when _startModule recurses without reaching an await
StackExhausted == "Maximum call stack size exceeded"
\* the errors a module's own startup and shutdown routines reject with
StartupFailed == "startup failed"
ShutdownFailed == "shutdown failed"

\* the statuses of newly constructed modules
Fresh == [m \in Loaded |-> "UNINITIALIZED"]

\* the manager before startup is called: history of the startup and shutdown routines
\* invoked, where in shutdownCalls the latest shutdown pass begins, the statuses the
\* modules had when they were loaded, and whether the process owner has asked for the
\* shutdown after which the process exits
ManagerInit ==
    [pc            |-> "idle",
     stack         |-> <<>>,
     loadIdx       |-> 0,
     startupError  |-> "none",
     shutdownOrder |-> <<>>,
     shutIdx       |-> 0,
     result        |-> "pending",
     startupCalls  |-> <<>>,
     shutdownCalls |-> <<>>,
     passStart     |-> 0,
     loadStatus    |-> Fresh,
     exiting       |-> FALSE]

\* the manager together with the module statuses it reads and writes in one run, and
\* whether the run reached JobQueue.resume
ManagerWorld == manager @@ [status |-> moduleStatus, resumed |-> FALSE]

\* the module names on the call stack of _startModule
OnStack(w) == {w.stack[k].module : k \in 1..Len(w.stack)}

\* lines 148-163 of shutdown for one running module: push the name if absent, splice
\* out the dependencies already in the order, push all dependencies
RECURSIVE SpliceEach(_, _)
SpliceEach(order, ds) ==
    IF ds = <<>> THEN order
    ELSE SpliceEach(RemoveAt(order, IndexOf(order, Head(ds))), Tail(ds))

RECURSIVE ShutdownOrderFrom(_, _, _)

\* ShutdownOrderFrom with the includes test of line 149 left out: the name is always pushed
ShutdownOrderFromAlwaysPushes(mods, order, D) ==
    IF mods = <<>> THEN order
    ELSE LET name == Head(mods)
             pushed == Append(order, name)
             present == SelectSeq(D[name], LAMBDA d : d \in Range(pushed))
         IN  ShutdownOrderFrom(Tail(mods), SpliceEach(pushed, present) \o D[name], D)

\* lines 148-163 of shutdown for the running modules mods, from the order built so far
ShutdownOrderFrom(mods, order, D) ==
    IF mods = <<>> THEN order
    ELSE LET name == Head(mods)
             pushed == IF name \in Range(order) THEN order ELSE Append(order, name)
             present == SelectSeq(D[name], LAMBDA d : d \in Range(pushed))
         IN  ShutdownOrderFrom(Tail(mods), SpliceEach(pushed, present) \o D[name], D)

\* lines 138-144: the modules that take part in a shutdown
Running(status) ==
    SelectSeq(LoadOrder, LAMBDA m : status[m] \in {"STARTED", "STARTING", "ERROR"})

\* the end of shutdown; inside the catch block of startup the caught error is rethrown
EndShutdown(w) ==
    IF w.startupError # "none"
    THEN [w EXCEPT !.pc = "failed", !.result = w.startupError]
    ELSE [w EXCEPT !.pc = "stopped", !.result = "resolved"]

\* lines 165-168 from position shutIdx of the order up to the next call of a module's
\* shutdown routine, which sets the module STOPPING
RECURSIVE ShutdownLoop(_)
ShutdownLoop(w) ==
    IF ~(w.shutIdx < Len(w.shutdownOrder)) THEN EndShutdown(w)
    ELSE LET name == w.shutdownOrder[w.shutIdx + 1]
         IN  IF name \notin Loaded
             THEN ShutdownLoop([w EXCEPT !.shutIdx = @ + 1])
             ELSE [w EXCEPT !.shutIdx = @ + 1,
                            !.status[name] = "STOPPING",
                            !.shutdownCalls = Append(@, name),
                            !.pc = "awaitShutdown"]

\* ModuleManager.shutdown up to its first await
BeginShutdown(w) ==
    ShutdownLoop([w EXCEPT !.stack = <<>>,
                           !.shutdownOrder = ShutdownOrderFrom(Running(w.status), <<>>, deps),
                           !.shutIdx = 0,
                           !.passStart = Len(w.shutdownCalls)])

\* ThrowStart with JobQueue.resume called whether or not the loop of startup threw
ThrowStartResumes(w, err) == BeginShutdown([w EXCEPT !.startupError = err, !.resumed = TRUE])

\* an error thrown inside _startModule: no frame catches it, the catch block of startup
\* (line 127) awaits shutdown
ThrowStart(w, err) == BeginShutdown([w EXCEPT !.startupError = err])

\* _startModule is entered again for a module whose frame is on the stack and whose
\* status is unchanged: the recursion has no end.  When every frame of the cycle is at
\* its first dependency no await is passed and the stack is exhausted; otherwise each
\* round passes an await and startup never settles
Recursion(w, m) ==
    LET first == CHOOSE k \in 1..Len(w.stack) : w.stack[k].module = m
    IN  IF \A k \in first..Len(w.stack) : w.stack[k].i = 1
        THEN ThrowStart(w, StackExhausted)
        ELSE [w EXCEPT !.pc = "hung"]

RECURSIVE Descend(_), EnterModule(_, _), StartupLoop(_)

\* Descend with the loop over getDependentModules (lines 83-90) left out
DescendSkipsDependencies(w) ==
    IF w.stack = <<>> THEN StartupLoop(w)
    ELSE LET m == w.stack[Len(w.stack)].module
         IN  [w EXCEPT !.status[m] = "STARTING",
                       !.startupCalls = Append(@, m),
                       !.pc = "awaitStartup"]

\* _startModule from the top frame on, up to the call of a module's startup routine
\* (which sets the module STARTING), to a throw, or to the return of the outermost frame
Descend(w) ==
    IF w.stack = <<>> THEN StartupLoop(w)
    ELSE LET top == Len(w.stack)
             m == w.stack[top].module
             i == w.stack[top].i
         IN  IF i < Len(deps[m])
             THEN LET name == deps[m][i + 1]
                  IN  IF name \notin Loaded THEN ThrowStart(w, NotFound)
                      ELSE EnterModule([w EXCEPT !.stack[top].i = i + 1], name)
             ELSE [w EXCEPT !.status[m] = "STARTING",
                            !.startupCalls = Append(@, m),
                            !.pc = "awaitStartup"]

\* EnterModule without the cases of lines 73-78: a module in ERROR, STOPPING, STOPPED or
\* DISABLED is started like an UNINITIALIZED one
EnterModuleIgnoresStatus(w, m) ==
    CASE w.status[m] \in {"STARTING", "STARTED"} -> Descend(w)
      [] OTHER ->
            IF m \in OnStack(w) THEN Recursion(w, m)
            ELSE Descend([w EXCEPT !.stack = Append(@, [module |-> m, i |-> 0])])

\* EnterModule without the early return of lines 70-72: a module that is STARTING or
\* STARTED is started again
EnterModuleRestarts(w, m) ==
    CASE w.status[m] = "ERROR" -> ThrowStart(w, FailedToStart)
      [] w.status[m] \in {"STOPPING", "STOPPED", "DISABLED"} -> ThrowStart(w, Unavailable)
      [] OTHER ->
            IF m \in OnStack(w) THEN Recursion(w, m)
            ELSE Descend([w EXCEPT !.stack = Append(@, [module |-> m, i |-> 0])])

\* lines 69-81: the switch on the status of the module to start
EnterModule(w, m) ==
    CASE w.status[m] \in {"STARTING", "STARTED"} -> Descend(w)
      [] w.status[m] = "ERROR" -> ThrowStart(w, FailedToStart)
      [] w.status[m] \in {"STOPPING", "STOPPED", "DISABLED"} -> ThrowStart(w, Unavailable)
      [] OTHER ->
            IF m \in OnStack(w) THEN Recursion(w, m)
            ELSE Descend([w EXCEPT !.stack = Append(@, [module |-> m, i |-> 0])])

\* StartupLoop with the call of JobQueue.resume placed before the loop over the modules
StartupLoopResumesFirst(w) ==
    [w EXCEPT !.pc = "done", !.result = "resolved", !.resumed = TRUE]

\* lines 121-126 of startup: the next module of the load order, or JobQueue.resume
StartupLoop(w) ==
    IF w.loadIdx < Len(LoadOrder)
    THEN EnterModule([w EXCEPT !.loadIdx = @ + 1], LoadOrder[w.loadIdx + 1])
    ELSE [w EXCEPT !.pc = "done", !.result = "resolved", !.resumed = TRUE]

\* ------------------------------------------------------------------ actions
\* the state after construction, with modules that declare the dependencies d
Constructed(d) ==
    /\ deps = d
    /\ manager = ManagerInit
    /\ isPaused = TRUE
    /\ jobs = <<>>
    /\ queue = <<>>
    /\ active = <<>>
    /\ processLock = FALSE
    /\ callbacks = {}
    /\ loopI = 0
    /\ chain = <<>>
    /\ calls = <<>>
    /\ moduleStatus = Fresh
    /\ lastExecute = [job |-> 0, error |-> "none"]
    /\ dispatches = <<>>
    /\ passQueue = {}
    /\ rejected = <<>>

\* modules without dependencies
Init == Constructed([m \in Loaded |-> <<>>])

\* modules with any declared dependencies
InitManager == \E d \in DepsInputs : Constructed(d)

\* JobQueue.pause
Pause ==
    /\ ~processLock
    /\ isPaused' = TRUE
    /\ UNCHANGED <<managerVars, rejected, jobs, queue, active, processLock, callbacks, loopI, chain, calls,
                   moduleStatus, lastExecute, dispatches, passQueue>>

\* JobQueue.resume
Resume ==
    /\ ~processLock
    /\ isPaused' = FALSE
    /\ Commit(Process(World, FALSE))
    /\ UNCHANGED <<managerVars, rejected, callbacks, calls, moduleStatus, lastExecute>>

\* JobQueue.queueJob (and runJob, which only wraps it in a promise); max caps the
\* number of jobs of the behaviour
QueueJob(m, p, ref, max) ==
    /\ Len(jobs) < max
    /\ ModulesLoaded
    /\ m \in Loaded
    /\ LET uuid == Len(jobs) + 1
           w == [World EXCEPT !.jobs = Append(jobs, NewJob(m, p, ref)),
                              !.chain = Append(chain, "none"),
                              !.dispatches = Append(dispatches, 0),
                              !.queue = Append(queue, uuid)]
       IN  /\ callbacks' = callbacks \cup {uuid}
           /\ calls' = Append(calls, [resolve |-> 0, reject |-> 0])
           /\ Commit(Process(w, isPaused))
    /\ UNCHANGED <<managerVars, rejected, isPaused, moduleStatus, lastExecute>>

\* QueueJobThrows with the callback stored under the uuid of the next job before the
\* module is looked up
QueueJobThrowsAfterCallback(m, known) ==
    /\ Len(rejected) < MaxRejected
    /\ ~(ModulesLoaded /\ m \in Loaded /\ known)
    /\ rejected' = Append(rejected, [module |-> m,
                                     error |-> IF ModulesLoaded /\ m \in Loaded
                                               THEN JobNotFound ELSE ModuleNotFound])
    /\ callbacks' = callbacks \cup {Len(jobs) + 1}
    /\ UNCHANGED <<managerVars, isPaused, jobs, queue, active, processLock, loopI,
                   chain, calls, moduleStatus, lastExecute, dispatches, passQueue>>

\* JobQueue.queueJob (and runJob) for a module name getModule has no module for (line
\* 110), or a job name (known = FALSE) that is not a job of the module (line 112):
\* queueJob throws and the caller's promise is rejected
QueueJobThrows(m, known) ==
    /\ Len(rejected) < MaxRejected
    /\ ~(ModulesLoaded /\ m \in Loaded /\ known)
    /\ rejected' = Append(rejected, [module |-> m,
                                     error |-> IF ModulesLoaded /\ m \in Loaded
                                               THEN JobNotFound ELSE ModuleNotFound])
    /\ UNCHANGED <<managerVars, isPaused, jobs, queue, active, processLock, callbacks, loopI,
                   chain, calls, moduleStatus, lastExecute, dispatches, passQueue>>

\* _process resumes after job.execute() has returned its promise
ExecuteReturns ==
    /\ processLock
    /\ Commit(AfterExecute(World))
    /\ UNCHANGED <<managerVars, rejected, isPaused, callbacks, calls, moduleStatus, lastExecute>>

\* a phase of a running job settles and Job.execute continues to its next await or to its end
PhaseSettles(uuid, ok) ==
    /\ ~processLock
    /\ Suspended(jobs[uuid])
    /\ LET job == Settle(jobs[uuid], ok)
       IN  /\ jobs' = [jobs EXCEPT ![uuid] = job]
           /\ chain' = [chain EXCEPT ![uuid] =
                            IF @ = "pending" THEN Settled(job) ELSE @]
    /\ UNCHANGED <<managerVars, rejected, isPaused, queue, active, processLock, callbacks, loopI, calls,
                   moduleStatus, lastExecute, dispatches, passQueue>>

\* Deliver with .catch(callback.reject) left out: a rejection reaches no callback
DeliverNoCatch(uuid) ==
    /\ ~processLock
    /\ chain[uuid] \in {"fulfilled", "rejected"}
    /\ calls' = [calls EXCEPT ![uuid] =
                    IF chain[uuid] = "fulfilled" THEN [@ EXCEPT !.resolve = @ + 1] ELSE @]
    /\ chain' = [chain EXCEPT ![uuid] = "delivered"]
    /\ UNCHANGED <<managerVars, rejected, isPaused, jobs, queue, active, processLock, callbacks, loopI,
                   moduleStatus, lastExecute, dispatches, passQueue>>

\* Deliver with the handlers attached as .catch(callback.reject).then(callback.resolve):
\* the promise .catch returns is fulfilled, so resolve runs after reject
DeliverCatchFirst(uuid) ==
    /\ ~processLock
    /\ chain[uuid] \in {"fulfilled", "rejected"}
    /\ calls' = [calls EXCEPT ![uuid] =
                    IF chain[uuid] = "fulfilled"
                    THEN [@ EXCEPT !.resolve = @ + 1]
                    ELSE [resolve |-> @.resolve + 1, reject |-> @.reject + 1]]
    /\ chain' = [chain EXCEPT ![uuid] = "delivered"]
    /\ UNCHANGED <<managerVars, rejected, isPaused, jobs, queue, active, processLock, callbacks, loopI,
                   moduleStatus, lastExecute, dispatches, passQueue>>

\* .then(callback.resolve).catch(callback.reject), with the resolve and reject of the
\* promise runJob builds as the callback: neither of them throws
Deliver(uuid) ==
    /\ ~processLock
    /\ chain[uuid] \in {"fulfilled", "rejected"}
    /\ calls' = [calls EXCEPT ![uuid] =
                    IF chain[uuid] = "fulfilled"
                    THEN [@ EXCEPT !.resolve = @ + 1]
                    ELSE [@ EXCEPT !.reject = @ + 1]]
    /\ chain' = [chain EXCEPT ![uuid] = "delivered"]
    /\ UNCHANGED <<managerVars, rejected, isPaused, jobs, queue, active, processLock, callbacks, loopI,
                   moduleStatus, lastExecute, dispatches, passQueue>>

\* Finalize with the call of _process in line 174 left out
FinalizeNoProcess(uuid) ==
    /\ ~processLock
    /\ chain[uuid] = "delivered"
    /\ callbacks' = callbacks \ {uuid}
    /\ LET k == IndexOf(active, uuid)
       IN  Commit([World EXCEPT !.active = IF k > 0 THEN RemoveAt(active, k) ELSE active,
                                !.chain[uuid] = "finalized"])
    /\ UNCHANGED <<managerVars, rejected, isPaused, calls, moduleStatus, lastExecute>>

\* Finalize with the splice of the active set left out
FinalizeKeepsActive(uuid) ==
    /\ ~processLock
    /\ chain[uuid] = "delivered"
    /\ callbacks' = callbacks \ {uuid}
    /\ Commit(Process([World EXCEPT !.chain[uuid] = "finalized"], isPaused))
    /\ UNCHANGED <<managerVars, rejected, isPaused, calls, moduleStatus, lastExecute>>

\* Finalize with the delete of the callback left out
FinalizeKeepsCallback(uuid) ==
    /\ ~processLock
    /\ chain[uuid] = "delivered"
    /\ LET k == IndexOf(active, uuid)
           w == [World EXCEPT !.active = IF k > 0 THEN RemoveAt(active, k) ELSE active,
                              !.chain[uuid] = "finalized"]
       IN  Commit(Process(w, isPaused))
    /\ UNCHANGED <<managerVars, rejected, isPaused, callbacks, calls, moduleStatus, lastExecute>>

\* .finally(...): forget the callback, leave the active set, run _process
Finalize(uuid) ==
    /\ ~processLock
    /\ chain[uuid] = "delivered"
    /\ callbacks' = callbacks \ {uuid}
    /\ LET k == IndexOf(active, uuid)
           w == [World EXCEPT !.active = IF k > 0 THEN RemoveAt(active, k) ELSE active,
                              !.chain[uuid] = "finalized"]
       IN  Commit(Process(w, isPaused))
    /\ UNCHANGED <<managerVars, rejected, isPaused, calls, moduleStatus, lastExecute>>

\* BaseModule.setStatus
SetStatus(m, s) ==
    /\ ~processLock
    /\ ModulesLoaded
    /\ moduleStatus[m] # s
    /\ moduleStatus' = [moduleStatus EXCEPT ![m] = s]
    /\ UNCHANGED <<managerVars, rejected, isPaused, jobs, queue, active, processLock, callbacks, loopI, chain,
                   calls, lastExecute, dispatches, passQueue>>

\* Job.execute called on a job of the queue's list by a caller other than _process
ExecuteDirect(uuid) ==
    /\ ~processLock
    /\ jobs' = [jobs EXCEPT ![uuid] = ExecuteEntry(@)]
    /\ lastExecute' = [job |-> uuid, error |-> ExecuteEntryError(jobs[uuid])]
    /\ UNCHANGED <<managerVars, rejected, isPaused, queue, active, processLock, callbacks, loopI, chain, calls,
                   moduleStatus, dispatches, passQueue>>

\* the outcome of one run of the manager: its record, the module statuses, and the call
\* of JobQueue.resume (line 126) when the run reached it
CommitManager(w) ==
    /\ manager' = [f \in DOMAIN manager |-> w[f]]
    /\ moduleStatus' = w.status
    /\ IF w.resumed
       THEN /\ isPaused' = FALSE
            /\ Commit(Process(World, FALSE))
       ELSE UNCHANGED <<isPaused, jobs, queue, active, processLock, loopI, chain,
                        dispatches, passQueue>>
    /\ UNCHANGED <<deps, callbacks, calls, lastExecute, rejected>>

\* lines 55-63: this._modules holds newly constructed modules, whose statuses are st
LoadModules(w, st) == [w EXCEPT !.pc = "running", !.status = st, !.loadStatus = st]

\* ModuleManager.startup is called and _loadModules has loaded the modules, in the
\* statuses st
StartupWith(st) ==
    /\ ~processLock
    /\ manager.pc = "idle"
    /\ CommitManager(LoadModules(ManagerWorld, st))

\* ModuleManager.startup with modules that are constructed UNINITIALIZED
Startup == StartupWith(Fresh)

\* startup continues after an await that has settled without error
Continue ==
    /\ ~processLock
    /\ manager.pc = "running"
    /\ CommitManager(Descend(ManagerWorld))

\* StartupSettles with a catch handler (line 93) that does not rethrow
StartupSettlesSwallows(ok) ==
    /\ ~processLock
    /\ manager.pc = "awaitStartup"
    /\ LET top == Len(manager.stack)
           m == manager.stack[top].module
       IN  CommitManager([ManagerWorld EXCEPT !.status[m] = IF ok THEN "STARTED" ELSE "ERROR",
                                               !.stack = SubSeq(@, 1, top - 1),
                                               !.pc = "running"])

\* the startup routine of the module on top of the stack settles: it has set the module
\* STARTED, or it rejects and line 93 sets ERROR before the error is rethrown
StartupSettles(ok) ==
    /\ ~processLock
    /\ manager.pc = "awaitStartup"
    /\ LET top == Len(manager.stack)
           m == manager.stack[top].module
       IN  IF ok
           THEN CommitManager([ManagerWorld EXCEPT !.status[m] = "STARTED",
                                                   !.stack = SubSeq(@, 1, top - 1),
                                                   !.pc = "running"])
           ELSE CommitManager(ThrowStart([ManagerWorld EXCEPT !.status[m] = "ERROR"],
                                         StartupFailed))

\* the shutdown routine awaited in line 167 settles: it has set the module STOPPED, or
\* it rejects and the error leaves shutdown, and the catch block of startup with it
ShutdownSettles(ok) ==
    /\ ~processLock
    /\ manager.pc = "awaitShutdown"
    /\ LET m == manager.shutdownOrder[manager.shutIdx]
       IN  IF ok
           THEN CommitManager(ShutdownLoop([ManagerWorld EXCEPT !.status[m] = "STOPPED"]))
           ELSE CommitManager([ManagerWorld EXCEPT !.pc = "failed",
                                                   !.result = ShutdownFailed])

\* ModuleManager.shutdown is called by the process owner (the signal handlers) after
\* startup has settled, with success or with an error; the process exits when this
\* shutdown settles
Shutdown ==
    /\ ~processLock
    /\ manager.pc \in {"done", "failed"}
    /\ ~manager.exiting
    /\ CommitManager(BeginShutdown([ManagerWorld EXCEPT !.result = "pending",
                                                        !.startupError = "none",
                                                        !.exiting = TRUE]))

\* the scheduler with jobs that carry no callbackRef
Next ==
    \/ Startup
    \/ Pause
    \/ Resume
    \/ \E m \in Modules, p \in PriorityInputs : QueueJob(m, p, FALSE, MaxJobs)
    \/ ExecuteReturns
    \/ \E uuid \in 1..Len(jobs), ok \in BOOLEAN : PhaseSettles(uuid, ok)
    \/ \E uuid \in 1..Len(jobs) : Deliver(uuid)
    \/ \E uuid \in 1..Len(jobs) : Finalize(uuid)
    \/ \E m \in Modules, s \in SetStatusInputs : SetStatus(m, s)

Spec == Init /\ [][Next]_vars

\* the lifecycle of a job, with and without a callbackRef, also executed from outside
NextJob ==
    \/ Startup
    \/ Pause
    \/ Resume
    \/ \E m \in Modules, p \in LifecyclePriorityInputs, ref \in BOOLEAN :
            QueueJob(m, p, ref, MaxLifecycleJobs)
    \/ \E m \in Modules \cup {Missing}, known \in BOOLEAN : QueueJobThrows(m, known)
    \/ ExecuteReturns
    \/ \E uuid \in 1..Len(jobs), ok \in BOOLEAN : PhaseSettles(uuid, ok)
    \/ \E uuid \in 1..Len(jobs) : Deliver(uuid)
    \/ \E uuid \in 1..Len(jobs) : Finalize(uuid)
    \/ \E m \in Modules, s \in SetStatusInputs : SetStatus(m, s)
    \/ \E uuid \in 1..Len(jobs) : ExecuteDirect(uuid)

SpecJob == Init /\ [][NextJob]_vars

\* the scheduler under the event loop's guarantee: a continuation that is ready to run
\* (the rest of a pass, a settled phase, a then/catch/finally callback) is run; callers
\* and modules (pause, resume, queueJob, setStatus) are free to do nothing
NextLive ==
    \/ Startup
    \/ Pause
    \/ Resume
    \/ \E m \in Modules, p \in PriorityInputs : QueueJob(m, p, FALSE, MaxLiveJobs)
    \/ ExecuteReturns
    \/ \E uuid \in 1..Len(jobs), ok \in BOOLEAN : PhaseSettles(uuid, ok)
    \/ \E uuid \in 1..Len(jobs) : Deliver(uuid)
    \/ \E uuid \in 1..Len(jobs) : Finalize(uuid)
    \/ \E m \in Modules, s \in SetStatusInputs : SetStatus(m, s)

Continuation ==
    \/ ExecuteReturns
    \/ \E uuid \in 1..Len(jobs), ok \in BOOLEAN : PhaseSettles(uuid, ok)
    \/ \E uuid \in 1..Len(jobs) : Deliver(uuid)
    \/ \E uuid \in 1..Len(jobs) : Finalize(uuid)

SpecLive == Init /\ [][NextLive]_vars /\ WF_vars(Continuation)

\* the scenario of one module that is STARTED and a scheduler that is resumed before
\* the first job is submitted: callers submit jobs of that module between the steps of
\* the scheduler, which is not paused again; continuations run as in SpecLive
ScenarioModule == "data"

NextScenario ==
    \/ Startup
    \/ jobs = <<>> /\ Resume
    \/ jobs = <<>> /\ SetStatus(ScenarioModule, "STARTED")
    \/ /\ ~isPaused
       /\ CanRunJobs(ScenarioModule)
       /\ ~processLock
       /\ \E p \in PriorityInputs : QueueJob(ScenarioModule, p, FALSE, MaxJobs)
    \/ ExecuteReturns
    \/ \E uuid \in 1..Len(jobs), ok \in BOOLEAN : PhaseSettles(uuid, ok)
    \/ \E uuid \in 1..Len(jobs) : Deliver(uuid)
    \/ \E uuid \in 1..Len(jobs) : Finalize(uuid)

SpecScenario == Init /\ [][NextScenario]_vars /\ WF_vars(Continuation)

\* _startModule over modules that are met in any status: startup of modules of which
\* up to MaxPreset are loaded in a status other than UNINITIALIZED, and which declare up
\* to MaxStartDeps dependencies each
StartDepsInputs == {d \in DepsInputs : \A m \in Loaded : Len(d[m]) <= MaxStartDeps}

LoadStatusInputs ==
    {st \in [Loaded -> ModuleStatus] :
        Cardinality({m \in Loaded : st[m] # "UNINITIALIZED"}) <= MaxPreset}

InitStart == \E d \in StartDepsInputs : Constructed(d)

NextStart ==
    \/ \E st \in LoadStatusInputs : StartupWith(st)
    \/ Continue
    \/ \E ok \in BOOLEAN : StartupSettles(ok)
    \/ \E ok \in BOOLEAN : ShutdownSettles(ok)

SpecStart == InitStart /\ [][NextStart]_vars

\* the module manager from startup to shutdown, with a job waiting for the scheduler to
\* be resumed; the statuses are written by startup and shutdown only
NextManager ==
    \/ Startup
    \/ Continue
    \/ \E ok \in BOOLEAN : StartupSettles(ok)
    \/ \E ok \in BOOLEAN : ShutdownSettles(ok)
    \/ Shutdown
    \/ \E m \in Modules : QueueJob(m, NoPriority, FALSE, MaxManagerJobs)
    \/ ExecuteReturns
    \/ \E uuid \in 1..Len(jobs), ok \in BOOLEAN : PhaseSettles(uuid, ok)
    \/ \E uuid \in 1..Len(jobs) : Deliver(uuid)
    \/ \E uuid \in 1..Len(jobs) : Finalize(uuid)

SpecManager == InitManager /\ [][NextManager]_vars

\* ------------------------------------------------------------------ claims
\* the uuids of the jobs constructed so far
Uuids == 1..Len(jobs)

\* this step of _process moves job uuid from the queue to the active set
DispatchedNow(uuid) == uuid \in Range(active') /\ uuid \notin Range(active)

\* C1: in every reachable state of the scheduler the number of jobs in the active set
\* is at most the concurrency bound
C1_ActiveWithinConcurrency == Len(active) <= Concurrency

\* the bound is reached while the scheduler is resumed and a job it could run waits
C1_Witness ==
    /\ Len(active) = Concurrency
    /\ ~isPaused
    /\ \E k \in 1..Len(queue) : CanRunJobs(jobs[queue[k]].module)

\* C2: no job is moved from the queue to the active set more than once, and no job's
\* validate/authorize/execute phases are started more than once
C2_NoDoubleExecution ==
    \A uuid \in Uuids : dispatches[uuid] <= 1 /\ jobs[uuid].runs <= 1

\* every job of the behaviour has been dispatched, run and finalized, and passes of
\* _process still run (the last completion ran one)
C2_Witness ==
    /\ Len(jobs) = MaxJobs
    /\ \A uuid \in Uuids :
            dispatches[uuid] = 1 /\ jobs[uuid].runs = 1 /\ chain[uuid] = "finalized"

\* the job has reached COMPLETED and exactly one of its caller's callbacks was invoked
CompletedAndSettled(uuid) ==
    /\ uuid <= Len(jobs)
    /\ jobs[uuid].status = "COMPLETED"
    /\ calls[uuid].resolve + calls[uuid].reject = 1

\* C3 as stated: every job accepted by queueJob eventually reaches COMPLETED and its
\* caller's promise is eventually settled
C3_EverySubmittedCompletes ==
    \A uuid \in 1..MaxLiveJobs : (uuid <= Len(jobs)) ~> CompletedAndSettled(uuid)

\* C3 as amended: every job that _process has dispatched eventually reaches COMPLETED
\* and its caller's promise is eventually settled
C3_EveryDispatchedCompletes ==
    \A uuid \in 1..MaxLiveJobs :
        (uuid <= Len(jobs) /\ dispatches[uuid] >= 1) ~> CompletedAndSettled(uuid)

\* one dispatched job has completed with its resolve callback invoked, another with
\* its reject callback invoked
C3_Witness ==
    \E x, y \in Uuids :
        /\ dispatches[x] = 1 /\ CompletedAndSettled(x) /\ calls[x].resolve = 1
        /\ dispatches[y] = 1 /\ CompletedAndSettled(y) /\ calls[y].reject = 1

\* the scheduler is resumed and the job's module can run jobs
CanBeDispatched(uuid) ==
    uuid <= Len(jobs) /\ ~isPaused /\ CanRunJobs(jobs[uuid].module)

HasBeenDispatched(uuid) == uuid <= Len(jobs) /\ dispatches[uuid] = 1

\* C7 as stated: a queued job whose module can run jobs from now on, on a scheduler
\* that stays resumed, is eventually moved to the active set, and only once
C7_EventuallyDispatched ==
    \A uuid \in 1..MaxLiveJobs :
        /\ [](uuid <= Len(jobs) => dispatches[uuid] <= 1)
        /\ []((/\ uuid \in Range(queue)
               /\ []CanBeDispatched(uuid))
              => <>HasBeenDispatched(uuid))

\* C7 as amended: such a job is moved to the active set at most once, and eventually
\* if some job is active at that moment (its completion runs the next pass)
C7_DispatchedByNextPasses ==
    \A uuid \in 1..MaxLiveJobs :
        /\ [](uuid <= Len(jobs) => dispatches[uuid] <= 1)
        /\ []((/\ uuid \in Range(queue)
               /\ active # <<>>
               /\ []CanBeDispatched(uuid))
              => <>HasBeenDispatched(uuid))

\* a job waits in the queue although the scheduler is resumed, capacity is free and
\* its module can now run jobs, while a job submitted after it, of no better priority
\* and of another module, is active: the earlier job waited for its module
C7_Witness ==
    \E x, y \in Uuids :
        /\ x < y
        /\ x \in Range(queue)
        /\ CanRunJobs(jobs[x].module)
        /\ jobs[x].module # jobs[y].module
        /\ jobs[x].priority <= jobs[y].priority
        /\ y \in Range(active)
        /\ Len(active) < Concurrency
        /\ ~isPaused
        /\ ~processLock

\* C4: of two jobs with different priority values that were both in the queue and
\* eligible when a dispatch pass began, the one with the higher value is never moved to
\* the active set while the one with the lower value is left waiting in the queue
C4_PriorityOrder ==
    [][\A x, y \in passQueue' :
          (/\ DispatchedNow(y)
           /\ x \in Range(queue')
           /\ CanRunJobs(jobs'[x].module))
          => ~(jobs'[x].priority < jobs'[y].priority)]_vars

\* C5: of two jobs of equal priority that were both in the queue and eligible when a
\* dispatch pass began, the one submitted later is never moved to the active set while
\* the one submitted earlier is left waiting in the queue
C5_FifoTieBreak ==
    [][\A x, y \in passQueue' :
          (/\ DispatchedNow(y)
           /\ x \in Range(queue')
           /\ CanRunJobs(jobs'[x].module)
           /\ jobs'[x].priority = jobs'[y].priority)
          => ~(x < y)]_vars

\* C6: a queued job whose module cannot run jobs before and after a step is still in
\* the queue after it, with status QUEUED, not in the active set, and neither of its
\* caller's callbacks has been invoked
C6_UnavailableStaysQueued ==
    [][\A uuid \in Uuids :
          (/\ uuid \in Range(queue)
           /\ ~CanRunJobs(jobs[uuid].module)
           /\ moduleStatus'[jobs[uuid].module] # "STARTED")
          => /\ uuid \in Range(queue')
             /\ uuid \notin Range(active')
             /\ jobs'[uuid].status = "QUEUED"
             /\ jobs'[uuid].startedAt = 0
             /\ calls'[uuid] = [resolve |-> 0, reject |-> 0]]_vars

\* a pass of _process has dispatched a job submitted later than one that still waits
\* because its module cannot run jobs
C6_Witness ==
    \E x, y \in Uuids :
        /\ x < y
        /\ x \in Range(queue)
        /\ ~CanRunJobs(jobs[x].module)
        /\ jobs[x].status = "QUEUED"
        /\ dispatches[y] = 1
        /\ ~isPaused

\* the job is in the catch block of execute or has left execute by its throw
Failing(job) == job.phase \in {"catchPublish", "thrown"}

\* C8: when _validate or _authorize fails the job goes to the catch block without
\* invoking a later phase, never leaves the failure path for _authorize or _execute,
\* ends COMPLETED with the promise of execute rejected, and the rejection reaches only
\* the caller's reject callback
C8_PhasesShortCircuit ==
    [][\A uuid \in Uuids :
          /\ (PhaseSettles(uuid, FALSE) /\ jobs[uuid].phase \in {"validate", "authorize"})
                => Failing(jobs'[uuid])
          /\ Failing(jobs[uuid]) => Failing(jobs'[uuid])
          /\ jobs'[uuid].phase = "thrown"
                => /\ jobs'[uuid].status = "COMPLETED"
                   /\ chain[uuid] = "pending" => chain'[uuid] = "rejected"
          /\ (chain[uuid] = "rejected" /\ chain'[uuid] = "delivered")
                => calls'[uuid] = [resolve |-> 0, reject |-> 1]]_vars

\* _validate has failed: the job is in the catch block, publishing the validation error
C8_Witness ==
    \E uuid \in Uuids :
        /\ jobs[uuid].phase = "catchPublish"
        /\ jobs[uuid].error = "validate"
        /\ chain[uuid] = "pending"

\* C9: a job that is COMPLETED stays COMPLETED and a job that is ACTIVE never returns
\* to QUEUED, whoever calls execute on it
C9_StatusMonotonic ==
    [][\A uuid \in Uuids :
          /\ jobs[uuid].status = "COMPLETED" => jobs'[uuid].status = "COMPLETED"
          /\ jobs[uuid].status = "ACTIVE" => jobs'[uuid].status \in {"ACTIVE", "COMPLETED"}]_vars

\* execute was called on a started job, which has reached COMPLETED
C9_Witness ==
    /\ lastExecute.error = AlreadyExecuted
    /\ jobs[lastExecute.job].status = "COMPLETED"

\* C10: execute called on a job that is ACTIVE or COMPLETED, by an outside caller or by
\* _process, fails with the error of line 192 and leaves the job (status, timestamps,
\* phase, number of runs) as it was
C10_ExecuteStartedJobFails ==
    [][\A uuid \in Uuids :
          /\ (ExecuteDirect(uuid) /\ jobs[uuid].status \in {"ACTIVE", "COMPLETED"})
                => /\ lastExecute' = [job |-> uuid, error |-> AlreadyExecuted]
                   /\ jobs'[uuid] = jobs[uuid]
          /\ (DispatchedNow(uuid) /\ jobs[uuid].status \in {"ACTIVE", "COMPLETED"})
                => /\ chain'[uuid] = "rejected"
                   /\ jobs'[uuid] = jobs[uuid]]_vars

\* execute was called from outside on a job that is still ACTIVE and failed
C10_Witness ==
    /\ lastExecute.error = AlreadyExecuted
    /\ jobs[lastExecute.job].status = "ACTIVE"
    /\ jobs[lastExecute.job].runs = 1

\* C11 as stated: whatever the outcome of the validate, authorize and execute phases,
\* the promise Job.execute returned is never rejected
C11_ExecuteNeverRejects ==
    \A uuid \in Uuids : jobs[uuid].phase # "thrown"

\* C11 as amended: a failure of the validate, authorize or execute phase takes
\* Job.execute to its catch block, which rethrows: the promise of execute is rejected
\* once the job is COMPLETED, and the chain _process attached hands that rejection to
\* the caller's reject callback and to no other
C11_FailureRejectsToCallback ==
    [][\A uuid \in Uuids :
          /\ (PhaseSettles(uuid, FALSE) /\ jobs[uuid].phase \in {"validate", "authorize", "execute"})
                => jobs'[uuid].phase = IF jobs[uuid].callbackRef THEN "catchPublish" ELSE "thrown"
          /\ (jobs[uuid].phase = "catchPublish" /\ jobs'[uuid] # jobs[uuid])
                => jobs'[uuid].phase = "thrown"
          /\ (jobs[uuid].phase # "thrown" /\ jobs'[uuid].phase = "thrown")
                => /\ jobs'[uuid].status = "COMPLETED"
                   /\ chain'[uuid] = IF chain[uuid] = "pending" THEN "rejected" ELSE chain[uuid]
          /\ (chain[uuid] = "rejected" /\ chain'[uuid] # "rejected")
                => /\ calls'[uuid].reject = calls[uuid].reject + 1
                   /\ calls'[uuid].resolve = calls[uuid].resolve]_vars

\* a job only the scheduler has executed failed in a phase, execute rejected and the
\* caller's reject callback was invoked
C11_Witness ==
    \E uuid \in Uuids :
        /\ lastExecute.job = 0
        /\ jobs[uuid].phase = "thrown"
        /\ chain[uuid] \in {"delivered", "finalized"}
        /\ calls[uuid] = [resolve |-> 0, reject |-> 1]

\* how often the caller's callbacks of job uuid were invoked, resolve and reject together
Invocations(uuid) == calls[uuid].resolve + calls[uuid].reject

\* C12: no callback of a job is invoked before the job is dispatched, never more than
\* one invocation is made for a job, and once a job is dispatched it comes to have
\* exactly one invocation, of resolve or of reject, for good
C12_ExactlyOneCallback ==
    /\ [](\A uuid \in Uuids :
              /\ Invocations(uuid) <= 1
              /\ dispatches[uuid] = 0 => Invocations(uuid) = 0)
    /\ \A uuid \in 1..MaxLiveJobs :
            HasBeenDispatched(uuid) ~> [](uuid <= Len(jobs) /\ Invocations(uuid) = 1)

\* two dispatched jobs are through their chains, one with resolve invoked and one with
\* reject invoked
C12_Witness ==
    \E x, y \in Uuids :
        /\ chain[x] = "finalized" /\ calls[x] = [resolve |-> 1, reject |-> 0]
        /\ chain[y] = "finalized" /\ calls[y] = [resolve |-> 0, reject |-> 1]

\* C13: a job never has more than one outcome statistic, one duration statistic and
\* one log entry of its result, and a job whose execution has started and ended
\* (COMPLETED) has exactly one of each, also when a publish on the event bus failed
C13_ReportRegardlessOfOutcome ==
    \A uuid \in Uuids :
        /\ jobs[uuid].outcomes <= 1 /\ jobs[uuid].durations <= 1 /\ jobs[uuid].logs <= 1
        /\ jobs[uuid].status = "COMPLETED"
              => /\ jobs[uuid].outcomes = 1
                 /\ jobs[uuid].durations = 1
                 /\ jobs[uuid].logs = 1

\* the statuses of the messages of a job that reached the event bus
OnBus(job) == {job.published[k].status : k \in {l \in 1..Len(job.published) : job.published[l].ok}}

\* C14: EventsModule.publish is called for a job's result if and only if the job's
\* context holds a callbackRef; a "success" message is on the bus only of a job whose
\* execute returned and an "error" message only of one whose execute threw, the last
\* publish call carries the status of the outcome, and for a job that only the
\* scheduler executed resolve is the callback invoked exactly when execute returned
C14_PublishedIffCallbackRef ==
    \A uuid \in Uuids :
        LET job == jobs[uuid]
            n == Len(job.published)
        IN  /\ ~job.callbackRef => n = 0
            /\ (job.callbackRef /\ job.status = "COMPLETED") => n > 0
            /\ (job.phase = "returned" /\ job.callbackRef)
                  => /\ OnBus(job) = {"success"}
                     /\ job.published[n].status = "success"
            /\ (job.phase = "thrown" /\ job.callbackRef)
                  => /\ OnBus(job) \subseteq {"error"}
                     /\ job.published[n].status = "error"
            /\ (lastExecute.job = 0 /\ chain[uuid] \in {"delivered", "finalized"})
                  => /\ calls[uuid].resolve = 1 <=> job.phase = "returned"
                     /\ calls[uuid].reject = 1 <=> job.phase = "thrown"

\* a job with a callbackRef ran its phases with success, the publish of the success
\* message failed, the error message was published and reject was invoked
C14_Witness ==
    \E uuid \in Uuids :
        /\ lastExecute.job = 0
        /\ jobs[uuid].callbackRef
        /\ jobs[uuid].published =
                <<[status |-> "success", ok |-> FALSE], [status |-> "error", ok |-> TRUE]>>
        /\ calls[uuid] = [resolve |-> 0, reject |-> 1]

\* C15: a step that leaves the scheduler paused (pause itself, a submit or a completion
\* while paused) moves no job into the active set, and every job that is active while
\* the scheduler is paused still reaches COMPLETED with one of its caller's callbacks
\* invoked
C15_PauseStopsDispatchOnly ==
    /\ [][isPaused' => Range(active') \subseteq Range(active)]_vars
    /\ \A uuid \in 1..MaxLiveJobs :
            (isPaused /\ uuid \in Range(active)) ~> CompletedAndSettled(uuid)

\* the scheduler is paused with capacity free and a job it could run waiting, after
\* another job went through its whole chain
C15_Witness ==
    /\ isPaused
    /\ Len(active) < Concurrency
    /\ \E x \in Range(queue) : CanRunJobs(jobs[x].module)
    /\ \E y \in Uuids : chain[y] = "finalized" /\ jobs[y].runs = 1

\* the names reachable from the set S of names along declared dependencies, in at most
\* k steps
RECURSIVE Closure(_, _)
Closure(S, k) ==
    IF k = 0 THEN S
    ELSE Closure(S \cup UNION {Range(deps[x]) : x \in S \cap Loaded}, k - 1)

\* the names module m depends on, directly or transitively
DependenciesOf(m) == Closure(Range(deps[m]), Len(LoadOrder))

\* this step invokes the startup routine of module m
StartupInvoked(m) ==
    /\ Len(manager'.startupCalls) = Len(manager.startupCalls) + 1
    /\ manager'.startupCalls[Len(manager'.startupCalls)] = m

\* C16: when startup invokes the startup routine of a module, every module it depends
\* on, directly or transitively, is a loaded module whose startup routine was invoked
\* before and which is STARTED
C16_StartupRespectsDependencies ==
    [][\A m \in Loaded :
          StartupInvoked(m)
          => \A d \in DependenciesOf(m) :
                /\ d \in Loaded
                /\ d \in Range(manager.startupCalls)
                /\ moduleStatus[d] = "STARTED"
                /\ moduleStatus'[d] = "STARTED"]_vars

\* the startup routine of api is awaited after data, which api depends on, and events,
\* which only data depends on, were started in that order
C16_Witness ==
    /\ deps["api"] = <<"data">>
    /\ deps["data"] = <<"events">>
    /\ manager.startupCalls = <<"events", "data", "api">>
    /\ manager.pc = "awaitStartup"

\* some module depends on itself, directly or transitively
Cyclic == \E m \in Loaded : m \in DependenciesOf(m)

\* C17: when the declared dependencies contain a cycle no module's startup routine is
\* ever invoked, and startup ends with an error: it neither succeeds nor stays unsettled
C17_CycleFailsFast ==
    Cyclic => /\ manager.startupCalls = <<>>
              /\ manager.pc \notin {"done", "hung"}

\* some module declares a dependency that is not a loaded module
HasMissing == \E m \in Loaded : Missing \in Range(deps[m])

\* C18: when some module declares a dependency that is not loaded, no module's startup
\* routine is ever invoked, wherever the offending module stands in the load order,
\* and startup does not succeed
C18_MissingDependencyAborts ==
    HasMissing => /\ manager.startupCalls = <<>>
                  /\ manager.pc # "done"

AllStarted(status) == \A m \in Loaded : status[m] = "STARTED"

\* C19: a step of the module manager that takes the scheduler out of its paused state,
\* or in which a job is moved to the active set, is taken with every loaded module
\* STARTED before and after it, and it is the step that ends startup with success
C19_ResumeOnlyWhenAllStarted ==
    [][(/\ manager' # manager
        /\ \/ isPaused /\ ~isPaused'
           \/ \E uuid \in Uuids : DispatchedNow(uuid))
       => /\ AllStarted(moduleStatus)
          /\ AllStarted(moduleStatus')
          /\ manager.pc = "running"
          /\ manager'.pc = "done"]_vars

\* startup has just resumed the scheduler and its dispatch pass has handed the waiting
\* job to execute(): all three startup routines were invoked and every module is STARTED
C19_Witness ==
    /\ manager.pc = "done"
    /\ Len(manager.startupCalls) = Len(LoadOrder)
    /\ AllStarted(moduleStatus)
    /\ ~isPaused
    /\ processLock
    /\ active = <<1>>

\* C20: once a module's startup routine has failed no further startup routine is
\* invoked, and when startup then settles it has invoked the shutdown routine of every
\* module whose startup routine it had invoked, and it rejects with the error of the
\* startup routine, also when a shutdown routine failed during that pass
C20_StartupFailureShutsDownAndRethrows ==
    /\ [][manager.startupError = StartupFailed
            => manager'.startupCalls = manager.startupCalls]_vars
    /\ []((manager.startupError = StartupFailed /\ manager.pc = "failed")
            => /\ Range(manager.startupCalls) \subseteq Range(manager.shutdownCalls)
               /\ manager.result = StartupFailed)

\* this step invokes the shutdown routine of module m
ShutdownInvoked(m) ==
    /\ Len(manager'.shutdownCalls) = Len(manager.shutdownCalls) + 1
    /\ manager'.shutdownCalls[Len(manager'.shutdownCalls)] = m

\* the statuses of the modules that take part in a shutdown (lines 139-143)
RunningStatuses == {"STARTED", "STARTING", "ERROR"}

\* C21: when the declared dependencies are acyclic and shutdown invokes the shutdown
\* routine of a module, no other module that depends on it, directly or transitively,
\* is still running: the routines of its running dependents were invoked before
C21_ShutdownRespectsDependencies ==
    [][\A m \in Loaded :
          (ShutdownInvoked(m) /\ ~Cyclic)
          => \A x \in Loaded \ {m} :
                m \in DependenciesOf(x) => moduleStatus[x] \notin RunningStatuses]_vars

\* C22: shutdown invokes the shutdown routine only of modules that are STARTED,
\* STARTING or ERROR when it is invoked, never of a module that is UNINITIALIZED,
\* STOPPING, STOPPED or DISABLED
C22_ShutdownOnlyRunningModules ==
    [][\A m \in Loaded :
          ShutdownInvoked(m) => moduleStatus[m] \in RunningStatuses]_vars

\* the shutdown routines invoked by the latest shutdown pass
PassCalls ==
    Range(SubSeq(manager.shutdownCalls, manager.passStart + 1, Len(manager.shutdownCalls)))

\* C23: when a shutdown pass has ended, with or without an error, the shutdown routine
\* of every loaded module of its shutdown order has been invoked
C23_ShutdownFailureDoesNotBlock ==
    manager.pc \in {"failed", "stopped"}
    => (Range(manager.shutdownOrder) \cap Loaded) \subseteq PassCalls

\* C24: a step in which queueJob throws (the caller's promise is rejected) leaves the
\* scheduler's jobs, queue, active set, callbacks and dispatch pass as they were, and a
\* step that adds a job is taken for a loaded module, after the modules were loaded,
\* and rejects nothing
C24_UnknownTargetRejectsUnchanged ==
    [][/\ rejected' # rejected
          => /\ Len(rejected') = Len(rejected) + 1
             /\ UNCHANGED <<isPaused, jobs, queue, active, processLock, callbacks, loopI,
                            chain, calls, dispatches, passQueue>>
       /\ Len(jobs') > Len(jobs)
          => /\ ModulesLoaded
             /\ jobs'[Len(jobs')].module \in Loaded
             /\ rejected' = rejected]_vars

\* with the modules loaded and a job of module data active, a submission for a module
\* name that is not loaded has been rejected
C24_Witness ==
    /\ rejected = <<[module |-> Missing, error |-> ModuleNotFound]>>
    /\ ModulesLoaded
    /\ active = <<1>>
    /\ callbacks = {1}

\* this step runs the completion handler (.finally) of job uuid
Completes(uuid) == chain[uuid] = "delivered" /\ chain'[uuid] = "finalized"

\* C25: in the scenario of jobs submitted to a resumed scheduler whose single module is
\* STARTED, the active set never exceeds the concurrency and holds exactly that many
\* jobs while a job waits in the queue; a completion with jobs waiting dispatches
\* exactly one of them; and every waiting job is eventually dispatched
C25_ScenarioFillsAndRefills ==
    /\ [](/\ Len(active) <= Concurrency
          /\ queue # <<>> => Len(active) = Concurrency)
    /\ [][\A uuid \in Uuids :
             (Completes(uuid) /\ queue # <<>>)
             => /\ Cardinality({y \in Uuids : DispatchedNow(y)}) = 1
                /\ Len(queue') = Len(queue) - 1]_vars
    /\ \A uuid \in 1..MaxJobs :
          (uuid \in Range(queue)) ~> HasBeenDispatched(uuid)

\* more jobs than the concurrency were submitted; the first completion has dispatched
\* the job that waited, so that the active set is full again and the queue is empty
C25_Witness ==
    /\ Len(jobs) > Concurrency
    /\ \E uuid \in Uuids : chain[uuid] = "finalized"
    /\ Len(active) = Concurrency
    /\ Len(jobs) \in Range(active)
    /\ queue = <<>>
    /\ \A uuid \in Uuids : dispatches[uuid] = 1

\* C26: when a dispatch pass ends on a scheduler that is not paused, the active set has
\* reached the concurrency or none of the jobs that waited in the queue when the pass
\* began is still queued with a module that can run jobs
C26_PassFillsActiveSet ==
    [][(processLock /\ ~processLock' /\ ~isPaused)
       => \/ Len(active') >= Concurrency
          \/ \A uuid \in passQueue :
                uuid \in Range(queue') => ~CanRunJobs(jobs'[uuid].module)]_vars

\* C27: a job submitted while a dispatch pass is running is only appended to the queue:
\* the active set, the running pass, the lock and every other job stay as they were;
\* and a pass that is running always ends and releases the lock, after which no pass
\* is left in progress
C27_ReentrantProcessIsNoOp ==
    /\ [][(processLock /\ Len(jobs') > Len(jobs))
            => /\ queue' = Append(queue, Len(jobs'))
               /\ active' = active
               /\ processLock'
               /\ loopI' = loopI
               /\ passQueue' = passQueue
               /\ \A uuid \in Uuids :
                     /\ jobs'[uuid] = jobs[uuid]
                     /\ chain'[uuid] = chain[uuid]
                     /\ dispatches'[uuid] = dispatches[uuid]]_vars
    /\ [](~processLock => (loopI = 0 /\ passQueue = {}))
    /\ processLock ~> ~processLock

\* a dispatch pass is suspended in the execute() of job 1 and job 2, submitted since
\* the pass began, waits in the queue with the active set below the concurrency
C27_Witness ==
    /\ processLock
    /\ active = <<1>>
    /\ queue = <<2>>
    /\ 2 \notin passQueue
    /\ dispatches = <<1, 0>>

\* C28: the step that runs the completion handler of a job leaves the job in neither
\* the queue nor the active set and without a callback, and when the scheduler is not
\* paused and a queued job's module can run jobs, that step moves such a job to the
\* active set
C28_CompletionTriggersDispatch ==
    [][\A uuid \in Uuids :
          Completes(uuid)
          => /\ uuid \notin Range(queue')
             /\ uuid \notin Range(active')
             /\ uuid \notin callbacks'
             /\ (/\ ~isPaused
                 /\ \E x \in Range(queue) : CanRunJobs(jobs[x].module))
                => \E y \in Uuids : /\ DispatchedNow(y)
                                     /\ y \in Range(queue)
                                     /\ CanRunJobs(jobs[y].module)]_vars

\* the completion handler of job 1 has run while the scheduler was not paused and has
\* moved job 3, which waited behind the concurrency, to the active set beside job 2
C28_Witness ==
    /\ Len(jobs) = 3
    /\ chain[1] = "finalized"
    /\ active = <<2, 3>>
    /\ queue = <<>>
    /\ processLock
    /\ callbacks = {2, 3}
    /\ ~isPaused

\* C29: the job that queueJob constructs has the priority its options give, whatever
\* integer that is, and the default priority when they give none; and no step changes
\* the priority of a job
C29_PriorityAsSupplied ==
    [][/\ \A m \in Modules, p \in LifecyclePriorityInputs, ref \in BOOLEAN :
             QueueJob(m, p, ref, MaxLifecycleJobs)
             => jobs'[Len(jobs')].priority =
                    IF p = NoPriority THEN DefaultPriority ELSE p[1]
       /\ \A uuid \in Uuids : jobs'[uuid].priority = jobs[uuid].priority]_vars

\* the statuses in which _startModule refuses a module (lines 73-78)
RefusedStatuses == {"ERROR", "STOPPING", "STOPPED", "DISABLED"}

\* C30: when a loaded module m declares a dependency d that startup meets in ERROR,
\* STOPPING, STOPPED or DISABLED, the startup routines of m and of d are never invoked,
\* startup never succeeds, and once it has left the loop over the modules an error has
\* reached its catch block; the error thrown for a refused module is "failed to start"
\* only for a module in ERROR and "unavailable" only for one of the other statuses
C30_RefusedDependencyFailsStart ==
    /\ \A m \in Loaded : \A d \in Range(deps[m]) \cap Loaded :
          (ModulesLoaded /\ manager.loadStatus[d] \in RefusedStatuses)
          => /\ m \notin Range(manager.startupCalls)
             /\ d \notin Range(manager.startupCalls)
             /\ manager.pc # "done"
             /\ manager.result # "resolved"
             /\ manager.pc \in {"awaitShutdown", "failed", "stopped"}
                => manager.startupError # "none"
    /\ manager.startupError = FailedToStart
          => \E d \in Loaded : manager.loadStatus[d] = "ERROR"
    /\ manager.startupError = Unavailable
          => \E d \in Loaded : manager.loadStatus[d] \in RefusedStatuses \ {"ERROR"}

\* api was started; data depends on events, which is DISABLED: startup has shut api
\* down and has rejected with the error thrown for events
C30_Witness ==
    /\ deps["data"] = <<"events">>
    /\ manager.loadStatus["events"] = "DISABLED"
    /\ manager.startupCalls = <<"api">>
    /\ manager.shutdownCalls = <<"api">>
    /\ manager.pc = "failed"
    /\ manager.result = Unavailable

\* how often the startup routine of module m was invoked
StartupCount(m) ==
    Cardinality({k \in 1..Len(manager.startupCalls) : manager.startupCalls[k] = m})

\* C31: across one startup the startup routine of each module is invoked at most once,
\* however often the module is reached; a module that startup meets STARTING or STARTED
\* never has its startup routine invoked and keeps its status while startup runs; and
\* the errors _startModule throws for the status of a module arise only when some
\* module was met in ERROR, STOPPING, STOPPED or DISABLED
C31_StartIsIdempotent ==
    /\ \A m \in Loaded : StartupCount(m) <= 1
    /\ \A m \in Loaded :
          (ModulesLoaded /\ manager.loadStatus[m] \in {"STARTING", "STARTED"})
          => /\ m \notin Range(manager.startupCalls)
             /\ manager.pc \in {"running", "awaitStartup", "done"}
                => moduleStatus[m] = manager.loadStatus[m]
    /\ manager.startupError \in {FailedToStart, Unavailable}
          => \E d \in Loaded : manager.loadStatus[d] \in RefusedStatuses

\* api was met STARTED, directly and then as the dependency of data and of events:
\* startup has succeeded with the startup routines of data and events invoked once
C31_Witness ==
    /\ manager.loadStatus["api"] = "STARTED"
    /\ deps["data"] = <<"api">>
    /\ deps["events"] = <<"api">>
    /\ manager.startupCalls = <<"data", "events">>
    /\ manager.pc = "done"
    /\ manager.result = "resolved"

\* the module whose startup routine is awaited
Starting == manager.stack[Len(manager.stack)].module

\* C32: when the awaited startup routine of a module settles, either the module is
\* STARTED and startup goes on without an error, or the error of the routine has
\* reached the catch block of startup and the module, being in ERROR, is part of the
\* shutdown pass begun there; and once a startup routine has failed, no module that
\* depends on the failed module, directly or transitively, has had or will have its
\* startup routine invoked
C32_StartupOutcomeSetsStatus ==
    /\ [][(manager.pc = "awaitStartup" /\ manager' # manager)
            => \/ /\ moduleStatus'[Starting] = "STARTED"
                  /\ manager'.startupError = "none"
                  /\ manager'.pc = "running"
               \/ /\ manager'.startupError = StartupFailed
                  /\ Starting \in Range(manager'.shutdownOrder)
                  /\ moduleStatus'[Starting] \in {"ERROR", "STOPPING"}
                  /\ moduleStatus'[Starting] = "STOPPING"
                     => manager'.shutdownCalls = Append(manager.shutdownCalls, Starting)]_vars
    /\ [](manager.startupError = StartupFailed
            => LET failed == manager.startupCalls[Len(manager.startupCalls)]
               IN  \A x \in Loaded :
                      failed \in DependenciesOf(x) => x \notin Range(manager.startupCalls))

\* events depends on data, whose startup routine has failed after api was started:
\* data is in ERROR and awaits its turn in the shutdown pass behind api, and the
\* startup routine of events was not invoked
C32_Witness ==
    /\ deps["events"] = <<"data">>
    /\ manager.startupError = StartupFailed
    /\ manager.startupCalls = <<"api", "data">>
    /\ moduleStatus["data"] = "ERROR"
    /\ moduleStatus["api"] = "STOPPING"
    /\ moduleStatus["events"] = "UNINITIALIZED"
    /\ manager.pc = "awaitShutdown"

\* no element occurs twice in the sequence
NoRepeat(seq) == \A k, l \in 1..Len(seq) : k # l => seq[k] # seq[l]

\* C33: the shutdown order holds each name at most once and a shutdown pass invokes the
\* shutdown routine of no module twice; a step invokes at most one shutdown routine,
\* and when it does so while a shutdown routine was awaited, that routine has settled
\* in this step, leaving its module STOPPED
C33_ShutdownOrderDeduplicated ==
    /\ [](/\ NoRepeat(manager.shutdownOrder)
          /\ NoRepeat(SubSeq(manager.shutdownCalls, manager.passStart + 1,
                              Len(manager.shutdownCalls))))
    /\ [][/\ Len(manager'.shutdownCalls) <= Len(manager.shutdownCalls) + 1
           /\ \A m \in Loaded :
                 (ShutdownInvoked(m) /\ manager.pc = "awaitShutdown")
                 => /\ manager.shutdownCalls # <<>>
                    /\ manager.shutdownCalls[Len(manager.shutdownCalls)] # m
                    /\ moduleStatus'[manager.shutdownCalls[Len(manager.shutdownCalls)]]
                          = "STOPPED"]_vars

\* api, on which data and events depend, was spliced out of the order twice and
\* appended again: the pass has invoked each shutdown routine once, api's last
C33_Witness ==
    /\ deps["data"] = <<"api">>
    /\ deps["events"] = <<"api">>
    /\ manager.shutdownOrder = <<"data", "events", "api">>
    /\ manager.shutdownCalls = <<"data", "events", "api">>
    /\ manager.pc = "stopped"

\* C34: no job is both in the queue and in the active set, neither holds a job twice,
\* every job in the queue is QUEUED, and every job that is ACTIVE is in the active set
C34_QueueActivePartition ==
    /\ Range(queue) \cap Range(active) = {}
    /\ NoRepeat(queue)
    /\ NoRepeat(active)
    /\ \A uuid \in Range(queue) : jobs[uuid].status = "QUEUED"
    /\ \A uuid \in Uuids : jobs[uuid].status = "ACTIVE" => uuid \in Range(active)

\* job 1 is COMPLETED and still in the active set, where job 2 is ACTIVE, and job 3 is
\* QUEUED in the queue
C34_Witness ==
    /\ Len(jobs) = 3
    /\ active = <<1, 2>>
    /\ queue = <<3>>
    /\ jobs[1].status = "COMPLETED"
    /\ jobs[2].status = "ACTIVE"
    /\ jobs[3].status = "QUEUED"

\* C35: the uuids that have a registered callback are exactly the uuids of the jobs in
\* the queue and in the active set, and a job whose completion handler has run has none
C35_CallbackRegistry ==
    /\ callbacks = Range(queue) \cup Range(active)
    /\ \A uuid \in Uuids : chain[uuid] = "finalized" => uuid \notin callbacks

\* the completion handler of job 1 has run and removed its callback; job 2, active,
\* and job 3, queued while the scheduler is paused, have theirs
C35_Witness ==
    /\ Len(jobs) = 3
    /\ chain[1] = "finalized"
    /\ active = <<2>>
    /\ queue = <<3>>
    /\ callbacks = {2, 3}
    /\ isPaused

\* C36: a job that a dispatch pass moves to the active set passes the entry checks of
\* execute: it was not started before and its module can run jobs, so that the step
\* leaves it ACTIVE in its first run with the promise of execute pending
C36_DispatchedPassesEntryChecks ==
    [][\A uuid \in Uuids :
          DispatchedNow(uuid)
          => /\ ExecuteEntryError(jobs[uuid]) = "none"
             /\ jobs'[uuid].status = "ACTIVE"
             /\ jobs'[uuid].runs = 1
             /\ chain'[uuid] = "pending"]_vars

\* job 1 waits because its module is in ERROR; job 2, of the other module, was queued
\* behind it and has been handed to execute by a pass that skipped job 1
C36_Witness ==
    /\ Len(jobs) = 2
    /\ queue = <<1>>
    /\ active = <<2>>
    /\ moduleStatus[jobs[1].module] = "ERROR"
    /\ jobs[2].status = "ACTIVE"
    /\ chain[2] = "pending"
    /\ processLock

\* C37: a step that invokes the resolve or reject callback of a job finds the job
\* COMPLETED with completedAt set and leaves it in the active set with its callback
\* registered, and moves no job; the completion handler of a job runs only after one
\* of its callbacks was invoked
C37_DeliveryAfterCompletion ==
    [][\A uuid \in Uuids :
          /\ calls'[uuid] # calls[uuid]
             => /\ jobs[uuid].status = "COMPLETED"
                /\ jobs[uuid].completedAt # 0
                /\ uuid \in Range(active')
                /\ uuid \in callbacks'
                /\ active' = active
                /\ queue' = queue
                /\ dispatches' = dispatches
          /\ Completes(uuid) => Invocations(uuid) = 1]_vars

\* the reject callback of job 1 has been invoked: the job is COMPLETED and still in the
\* active set, its completion handler has not run yet
C37_Witness ==
    /\ Len(jobs) >= 1
    /\ calls[1] = [resolve |-> 0, reject |-> 1]
    /\ chain[1] = "delivered"
    /\ jobs[1].status = "COMPLETED"
    /\ jobs[1].completedAt # 0
    /\ 1 \in Range(active)
    /\ 1 \in callbacks

\* JobStatistics for the jobs of module m: the sum over the first n jobs of the updates
\* each job has made to the statistic named by field; CONSTRUCTED is updated once by
\* the constructor of each job
RECURSIVE Stat(_, _, _)
Stat(m, field, n) ==
    IF n = 0 THEN 0
    ELSE Stat(m, field, n - 1)
         + (IF jobs[n].module # m THEN 0
            ELSE IF field = "constructed" THEN 1
            ELSE jobs[n][field])

\* C38: for the jobs of every module, TOTAL equals SUCCESSFUL plus FAILED, CONSTRUCTED
\* is at least TOTAL, and the number of recorded durations equals TOTAL
C38_StatisticsConsistent ==
    \A m \in Modules :
       /\ Stat(m, "totals", Len(jobs)) = Stat(m, "outcomes", Len(jobs))
       /\ Stat(m, "constructed", Len(jobs)) >= Stat(m, "totals", Len(jobs))
       /\ Stat(m, "durations", Len(jobs)) = Stat(m, "totals", Len(jobs))

\* C39: while the scheduler has not been resumed every submitted job is in the queue
\* and none was dispatched; and the scheduler is resumed only by a startup that has
\* invoked the startup routine of every loaded module without an error, so that after
\* a startup that failed it stays paused
C39_PausedUntilStartupSucceeds ==
    /\ isPaused
          => /\ active = <<>>
             /\ queue = [k \in 1..Len(jobs) |-> k]
             /\ \A uuid \in Uuids : dispatches[uuid] = 0
    /\ ~isPaused
          => /\ Range(manager.startupCalls) = Loaded
             /\ manager.pc \in {"done", "awaitShutdown", "stopped", "failed"}
             /\ manager.pc \in {"awaitShutdown", "stopped", "failed"} => manager.exiting
    /\ (manager.startupError # "none" \/ manager.pc = "hung") => isPaused

\* a job of module data was queued while data was STARTED; the startup routine of events
\* then failed: startup has ended with that error and the job is still queued
C39_Witness ==
    /\ manager.startupCalls = <<"api", "data", "events">>
    /\ manager.startupError = StartupFailed
    /\ manager.pc = "failed"
    /\ Len(jobs) = 1
    /\ jobs[1].module = "data"
    /\ queue = <<1>>
    /\ dispatches = <<0>>
    /\ isPaused

\* C40: execute called on a job that was not started and whose module cannot run jobs
\* fails with the error of line 195 and leaves the job as it was: QUEUED, without
\* timestamps, statistics, log entries or published messages, and not yet run
C40_RejectedExecuteLeavesJob ==
    [][\A uuid \in Uuids :
          (/\ ExecuteDirect(uuid)
           /\ jobs[uuid].startedAt = 0
           /\ ~CanRunJobs(jobs[uuid].module))
          => /\ lastExecute' = [job |-> uuid, error |-> CannotRunJobs]
             /\ jobs'[uuid] = jobs[uuid]
             /\ jobs'[uuid].status = "QUEUED"
             /\ jobs'[uuid].completedAt = 0
             /\ jobs'[uuid].runs = 0
             /\ jobs'[uuid].logs = 0
             /\ jobs'[uuid].totals = 0
             /\ jobs'[uuid].outcomes = 0
             /\ jobs'[uuid].durations = 0
             /\ jobs'[uuid].published = <<>>]_vars

\* the latest execute from outside failed because the module could not run jobs; the
\* job has since been run once, to its end, by the scheduler
C40_Witness ==
    /\ Len(jobs) = 1
    /\ lastExecute = [job |-> 1, error |-> CannotRunJobs]
    /\ jobs[1].runs = 1
    /\ jobs[1].status = "COMPLETED"
    /\ dispatches = <<1>>
    /\ jobs[1].totals = 1

====
